---- MODULE Spec2Model ----
(***************************************************************************)
(* Model of the score adjuster: score_adjustments.py (kappa_adjusted,      *)
(* proportional_variance, showcase_prescreening_score, _normalize) and the *)
(* argument checks of score_tools.py.                                      *)
(*                                                                         *)
(* Every function is pure, so a state is one finished call: the function   *)
(* called (fn), its arguments, and what it returned or raised.             *)
(*                                                                         *)
(* Numbers.  A float is a pair <<n, d>>: d > 0 is the rational n/d in      *)
(* lowest terms, <<0,0>> is NaN, <<1,0>> is +inf and <<-1,0>> is -inf.     *)
(* +, -, * and / are exact on the rationals and follow IEEE-754 on the     *)
(* special values (0/0 = NaN, x/0 = +-inf, 0*inf = NaN, NaN absorbs).      *)
(* A fractional power x ** (1/n) is rounded down to a multiple of          *)
(* 1/RootScale, as a float rounds to its grid.                             *)
(***************************************************************************)
EXTENDS Integers, Sequences, FiniteSets

\* ------------------------------------------------------------------ bounds
\* Most rows (projects) of a score table.
MaxProjects == 3
\* Resolution of a fractional power: results are multiples of 1/RootScale.
RootScale == 4

\* Judge columns of a table with judges: one or two judges.
ColumnSets == {{"A"}, {"A", "B"}}
\* Raw scores a judge may give.
RawScores == {0, 1, 2}
\* Identifiers of the score and attendance series of the blend.
Ids == {1, 2, 3}

VARIABLES
    fn,          \* the function called last ("none" before any call)
    table,       \* scores: DataFrame  [n rows, columns, cell]
    kappa,       \* kappa: int
    normalize,   \* normalize: bool
    avg_scores,  \* local avg_scores: per judge, a set of <<judge, value>>
    std_scores,  \* local std_scores: per judge
    weights,     \* local weights: per judge
    terms,       \* the frame handed to np.sum: a row of <<judge, value>> per project
    adjusted_scores, \* local adjusted_scores: Series
    scores,      \* scores: Series, a sequence of <<label, value>>
    attendance,  \* attendance: Series, a sequence of <<label, value>>
    ratio,       \* attendance_ratio: float
    mapping,     \* mapping: [given |-> FALSE] is None, else dict in .dict
    args,        \* score_tools arguments: which of them are given
    exc,         \* the exception the call raised ("none": it returned)
    msg,         \* the message of that exception
    data_read,   \* score_tools: the call went on to fetch or read its data
    result       \* the returned Series, a sequence of <<label, value>>

vars == <<fn, table, kappa, normalize, avg_scores, std_scores, weights, terms,
          adjusted_scores, scores, attendance, ratio, mapping,
          args, exc, msg, data_read, result>>

\* ------------------------------------------------------------- float model
NaN == <<0, 0>>
PosInf == <<1, 0>>
NegInf == <<-1, 0>>
Zero == <<0, 1>>
One == <<1, 1>>

IsNaN(x) == x = NaN
IsFinite(x) == x[2] > 0
IsInf(x) == x[2] = 0 /\ x[1] # 0

AbsInt(n) == IF n < 0 THEN -n ELSE n
SgnInt(n) == IF n < 0 THEN -1 ELSE IF n > 0 THEN 1 ELSE 0

RECURSIVE GCD(_, _)
GCD(a, b) == IF b = 0 THEN a ELSE GCD(b, a % b)

\* The rational n/d (d > 0) in lowest terms.
Rat(n, d) ==
    LET g == GCD(AbsInt(n), d)
    IN  <<SgnInt(n) * (AbsInt(n) \div g), d \div g>>

Num(n) == <<n, 1>>

Neg(x) == <<-x[1], x[2]>>

Add(x, y) ==
    IF IsNaN(x) \/ IsNaN(y) THEN NaN
    ELSE IF IsInf(x) /\ IsInf(y) THEN (IF x = y THEN x ELSE NaN)
    ELSE IF IsInf(x) THEN x
    ELSE IF IsInf(y) THEN y
    ELSE Rat(x[1] * y[2] + y[1] * x[2], x[2] * y[2])

Sub(x, y) == Add(x, Neg(y))

Mul(x, y) ==
    IF IsNaN(x) \/ IsNaN(y) THEN NaN
    ELSE IF IsInf(x) \/ IsInf(y)
         THEN (IF x[1] = 0 \/ y[1] = 0 THEN NaN
               ELSE <<SgnInt(x[1]) * SgnInt(y[1]), 0>>)
    ELSE Rat(x[1] * y[1], x[2] * y[2])

Div(x, y) ==
    IF IsNaN(x) \/ IsNaN(y) THEN NaN
    ELSE IF IsInf(x)
         THEN (IF IsInf(y) THEN NaN
               ELSE <<x[1] * (IF y[1] < 0 THEN -1 ELSE 1), 0>>)
    ELSE IF IsInf(y) THEN Zero
    ELSE IF y[1] = 0
         THEN (IF x[1] = 0 THEN NaN ELSE <<SgnInt(x[1]), 0>>)
    ELSE Rat(x[1] * y[2] * SgnInt(y[1]), x[2] * AbsInt(y[1]))

\* x < y and x <= y as floats compare: false whenever a NaN is involved.
Lt(x, y) ==
    /\ ~IsNaN(x) /\ ~IsNaN(y)
    /\ x # y
    /\ IF IsInf(x) THEN x = NegInf
       ELSE IF IsInf(y) THEN y = PosInf
       ELSE x[1] * y[2] < y[1] * x[2]

Le(x, y) == ~IsNaN(x) /\ ~IsNaN(y) /\ (x = y \/ Lt(x, y))

\* np.abs and np.sign
Abs(x) == <<AbsInt(x[1]), x[2]>>
Sign(x) == IF IsNaN(x) THEN NaN ELSE Num(SgnInt(x[1]))

RECURSIVE IntPow(_, _)
IntPow(b, k) == IF k = 0 THEN 1 ELSE b * IntPow(b, k - 1)

\* x ** 1/n with n a positive integer.
Root(x, n) ==
    IF n = 1 \/ IsNaN(x) THEN x
    ELSE IF x[1] < 0 THEN NaN
    ELSE IF IsInf(x) THEN PosInf
    ELSE LET num == x[1] * IntPow(RootScale, n)
             top == RootScale * ((x[1] \div x[2]) + 1)
             r   == CHOOSE q \in 0 .. top :
                        /\ IntPow(q, n) * x[2] <= num
                        /\ IntPow(q + 1, n) * x[2] > num
         IN  Rat(r, RootScale)

\* x ** k with k an integer >= 0.
RECURSIVE Pow(_, _)
Pow(x, k) == IF k = 0 THEN One ELSE Mul(x, Pow(x, k - 1))


\* ------------------------------------------------------------ pandas model
\* A Series is a sequence of <<label, value>>; a column or row handed to a
\* reduction is a sequence of values.
Labels(s) == {s[i][1] : i \in 1 .. Len(s)}
Values(s) == [i \in 1 .. Len(s) |-> s[i][2]]
Lookup(s, l) == s[CHOOSE i \in 1 .. Len(s) : s[i][1] = l][2]
Range(v) == {v[i] : i \in 1 .. Len(v)}

NotNaN(x) == ~IsNaN(x)

\* The sequence s itself, with every entry computed once.
Any(e) == TRUE
Computed(s) == SelectSeq(s, Any)

\* sum(skipna=True): NaN entries are left out, an empty sum is 0.0.
RECURSIVE SumSkipNa(_)
SumSkipNa(v) ==
    IF Len(v) = 0 THEN Zero
    ELSE IF IsNaN(v[1]) THEN SumSkipNa(Tail(v))
    ELSE Add(v[1], SumSkipNa(Tail(v)))

\* min() and max() skip NaN and give NaN on nothing.
RECURSIVE FoldMin(_, _)
FoldMin(v, m) ==
    IF Len(v) = 0 THEN m
    ELSE FoldMin(Tail(v), IF Lt(v[1], m) THEN v[1] ELSE m)

RECURSIVE FoldMax(_, _)
FoldMax(v, m) ==
    IF Len(v) = 0 THEN m
    ELSE FoldMax(Tail(v), IF Lt(m, v[1]) THEN v[1] ELSE m)

Min(v) ==
    LET w == SelectSeq(v, NotNaN)
    IN  IF Len(w) = 0 THEN NaN ELSE FoldMin(Tail(w), w[1])

Max(v) ==
    LET w == SelectSeq(v, NotNaN)
    IN  IF Len(w) = 0 THEN NaN ELSE FoldMax(Tail(w), w[1])

\* mean(): NaN on an empty column.
Mean(v) ==
    LET w == SelectSeq(v, NotNaN)
    IN  Div(SumSkipNa(w), Num(Len(w)))

\* var(ddof=1): NaN when fewer than two values.
Var(v) ==
    LET w  == SelectSeq(v, NotNaN)
        mu == Mean(w)
        sq == Computed([i \in 1 .. Len(w) |-> Mul(Sub(w[i], mu), Sub(w[i], mu))])
    IN  IF Len(w) < 2 THEN NaN ELSE Div(SumSkipNa(sq), Num(Len(w) - 1))

\* std(ddof=1)
Std(v) == Root(Var(v), 2)

\* The members of a finite set of judges, as a sequence.
RECURSIVE SeqOf(_)
SeqOf(S) ==
    IF S = {} THEN <<>>
    ELSE LET x == CHOOSE y \in S : TRUE IN <<x>> \o SeqOf(S \ {x})

\* A score table: rows labelled 1 .. n, one column per judge.
Column(t, j) == Computed([p \in 1 .. t.n |-> Num(t.cell[p][j])])

\* A per-judge Series (the result of mean, std or var over axis 0) is a set
\* of <<judge, value>>.
Of(series, j) == (CHOOSE e \in series : e[1] = j)[2]

\* RowSums with a plain sum, in which one NaN cell makes the row's sum NaN.
RECURSIVE SumKeepNa(_)
SumKeepNa(v) == IF Len(v) = 0 THEN Zero ELSE Add(v[1], SumKeepNa(Tail(v)))

RowSumsKeepNa(t, frame) ==
    LET js == SeqOf(t.columns)
    IN  Computed([p \in 1 .. t.n |->
            <<p, SumKeepNa([i \in 1 .. Len(js) |-> Of(frame[p], js[i])])>>])

\* np.sum(frame, axis=1), which is DataFrame.sum(axis=1, skipna=True):
\* the cells of row p summed over the judges, one entry per row label.
\* A frame is a sequence of rows, each row a set of <<judge, value>>.
RowSums(t, frame) ==
    LET js == SeqOf(t.columns)
    IN  Computed([p \in 1 .. t.n |->
            <<p, SumSkipNa([i \in 1 .. Len(js) |-> Of(frame[p], js[i])])>>])

\* -------------------------------------------------------- score_adjustments
\* _normalize dividing by the maximum instead of the range.
_normalizeByMax(arr) ==
    LET a == Min(Values(arr))
        b == Max(Values(arr))
    IN  Computed([i \in 1 .. Len(arr) |->
            <<arr[i][1], Div(Sub(arr[i][2], a), b)>>])

\* _normalize: (arr - a) / (b - a) with a the minimum and b the maximum.
_normalize(arr) ==
    LET a == Min(Values(arr))
        b == Max(Values(arr))
    IN  Computed([i \in 1 .. Len(arr) |->
            <<arr[i][1], Div(Sub(arr[i][2], a), Sub(b, a))>>])

\* The orders in which the entries of nums at the positions in S can come
\* out sorted descending: any largest entry first, then the rest.
RECURSIVE DescendingOrders(_, _)
DescendingOrders(nums, S) ==
    IF S = {} THEN {<<>>}
    ELSE UNION {{<<nums[i]>> \o rest : rest \in DescendingOrders(nums, S \ {i})} :
                    i \in {m \in S : \A o \in S : Le(nums[o][2], nums[m][2])}}

\* sort_values that drops the NaN entries instead of placing them last.
SortValuesDropNa(s) ==
    LET IsNum(e) == ~IsNaN(e[2])
        nums == SelectSeq(s, IsNum)
    IN  DescendingOrders(nums, 1 .. Len(nums))

\* Series.sort_values(ascending=False): the non-NaN entries in descending
\* order, the NaN entries last in their original order.  The default
\* quicksort is not stable, so entries that tie may come in any order.
SortValues(s) ==
    LET IsNum(e) == ~IsNaN(e[2])
        IsNa(e)  == IsNaN(e[2])
        nums == SelectSeq(s, IsNum)
        nans == SelectSeq(s, IsNa)
    IN  {order \o nans : order \in DescendingOrders(nums, 1 .. Len(nums))}

\* KappaTerm with the exponent kappa of the standard deviation left out.
KappaTermNoExponent(score, avg, std, k) ==
    LET d == Sub(score, avg)
    IN  Mul(Sign(d), Root(Mul(Abs(d), std), 1 + k))

\* One judge's signed contribution to one project:
\* sign(d) * (|d| * std**kappa) ** (1 / (1 + kappa)) with d = score - avg.
KappaTerm(score, avg, std, k) ==
    LET d == Sub(score, avg)
    IN  Mul(Sign(d), Root(Mul(Abs(d), Pow(std, k)), 1 + k))

\* What kappa_adjusted computes: its locals and the Series it returns.  The
\* sort leaves the order of ties open, so there is one record per order.
kappa_adjusted(t, k, nz) ==
    LET avg == {<<j, Mean(Column(t, j))>> : j \in t.columns}
        std == {<<j, Std(Column(t, j))>> : j \in t.columns}
        frame == Computed([p \in 1 .. t.n |->
                    {<<j, KappaTerm(Num(t.cell[p][j]), Of(avg, j), Of(std, j), k)>> :
                        j \in t.columns}])
        adjusted == RowSums(t, frame)
        normalized == IF nz THEN _normalize(adjusted) ELSE adjusted
    IN  {[avg_scores |-> avg, std_scores |-> std, weights |-> {},
          terms |-> frame, adjusted_scores |-> adjusted, result |-> r] :
            r \in SortValues(normalized)}

\* What proportional_variance computes: its locals (std_scores holds the
\* variances, as in the code) and the Series it returns.
proportional_variance(t, nz) ==
    LET std   == {<<j, Var(Column(t, j))>> : j \in t.columns}
        js    == SeqOf(t.columns)
        total == SumSkipNa([i \in 1 .. Len(js) |-> Of(std, js[i])])
        w     == {<<j, Div(Of(std, j), total)>> : j \in t.columns}
        frame == Computed([p \in 1 .. t.n |->
                    {<<j, Mul(Of(w, j), Num(t.cell[p][j]))>> : j \in t.columns}])
        adjusted == RowSums(t, frame)
        normalized == IF nz THEN _normalize(adjusted) ELSE adjusted
    IN  {[avg_scores |-> {}, std_scores |-> std, weights |-> w,
          terms |-> frame, adjusted_scores |-> adjusted, result |-> r] :
            r \in SortValues(normalized)}

Returned(r) == [exc |-> "none", msg |-> "", result |-> r]
Raised(e, m) == [exc |-> e, msg |-> m, result |-> <<>>]

\* showcase_prescreening_score: what it returns or raises.  With a mapping
\* the code relabels attendance, looking every label of attendance up in the
\* mapping (a missing key raises KeyError); attendance.loc[scores.index] then
\* raises KeyError when a label of scores is no label of attendance.
showcase_prescreening_score(sc, att, r, mp) ==
    IF mp.given /\ \E i \in 1 .. Len(att) : att[i][1] \notin DOMAIN mp.dict
    THEN Raised("KeyError", "mapping")
    ELSE LET att2 == IF mp.given
                     THEN [i \in 1 .. Len(att) |-> <<mp.dict[att[i][1]], att[i][2]>>]
                     ELSE att
         IN  IF \E i \in 1 .. Len(sc) : sc[i][1] \notin Labels(att2)
             THEN Raised("KeyError", "not in index")
             ELSE Returned([i \in 1 .. Len(sc) |->
                     <<sc[i][1], Add(Mul(sc[i][2], Sub(One, r)),
                                     Mul(Lookup(att2, sc[i][1]), r))>>])

\* -------------------------------------------------------------- score_tools
\* args says which arguments are given: sheet_id and credentials are given
\* or None, csv_or_frame is None, a path (str) or a DataFrame.  The outcome
\* is the exception raised, its message, and whether the call got as far as
\* fetching or reading its data (what the sheet or file then holds is not
\* modelled).  The messages are the code's, without their inner quotes.
Outcome(e, m, rd) == [exc |-> e, msg |-> m, data_read |-> rd]

get_project_scores(a) ==
    IF a.sheet_id /\ a.csv_or_frame # "None"
    THEN Outcome("ValueError", "Both sheet_id and csv_or_frame are given.", FALSE)
    ELSE IF (a.sheet_id /\ ~a.credentials) \/ (~a.sheet_id /\ a.credentials)
    THEN Outcome("TypeError", "Missing one of sheet_id or credentials", FALSE)
    ELSE IF a.sheet_id THEN Outcome("none", "", TRUE)
    ELSE IF a.csv_or_frame = "None"
    THEN Outcome("AttributeError", "NoneType object has no attribute copy", FALSE)
    ELSE Outcome("none", "", TRUE)

get_attendance_scores(a) ==
    IF a.sheet_id /\ a.csv_or_frame # "None"
    THEN Outcome("ValueError", "Both sheet_id and csv_or_frame are given.", FALSE)
    ELSE IF (a.sheet_id /\ ~a.credentials) \/ (~a.sheet_id /\ a.credentials)
    THEN Outcome("TypeError", "Missing one of sheet_id or credentials", FALSE)
    ELSE IF a.sheet_id THEN Outcome("none", "", TRUE)
    ELSE IF a.csv_or_frame = "None"
    THEN Outcome("AttributeError", "NoneType object has no attribute copy", FALSE)
    ELSE Outcome("none", "", TRUE)

\* get_number_name_pairs with its two checks in the other order.
get_number_name_pairs_TypeFirst(a) ==
    IF (a.sheet_id /\ ~a.credentials) \/ (~a.sheet_id /\ a.credentials)
    THEN Outcome("TypeError", "Missing one of sheet_id or credentials", FALSE)
    ELSE IF a.sheet_id /\ a.csv_or_frame # "None"
    THEN Outcome("ValueError", "Both sheet_id and csv_or_frame are given.", FALSE)
    ELSE IF a.sheet_id THEN Outcome("none", "", TRUE)
    ELSE IF a.csv_or_frame = "None"
    THEN Outcome("TypeError", "NoneType object is not subscriptable", FALSE)
    ELSE Outcome("none", "", TRUE)

get_number_name_pairs(a) ==
    IF a.sheet_id /\ a.csv_or_frame # "None"
    THEN Outcome("ValueError", "Both sheet_id and csv_or_frame are given.", FALSE)
    ELSE IF (a.sheet_id /\ ~a.credentials) \/ (~a.sheet_id /\ a.credentials)
    THEN Outcome("TypeError", "Missing one of sheet_id or credentials", FALSE)
    ELSE IF a.sheet_id THEN Outcome("none", "", TRUE)
    ELSE IF a.csv_or_frame = "None"
    THEN Outcome("TypeError", "NoneType object is not subscriptable", FALSE)
    ELSE Outcome("none", "", TRUE)

\* ------------------------------------------------------------------ inputs
\* Every score table of n projects with the judge columns c.
TablesOf(n, c) ==
    {[n |-> n, columns |-> c, cell |-> f] : f \in [1 .. n -> [c -> RawScores]]}

\* The tables of up to MaxProjects projects (none included) with judges, and
\* those without any judge column.
Tables == UNION {TablesOf(n, c) : n \in 0 .. MaxProjects, c \in ColumnSets}
NoJudgeTables == UNION {TablesOf(n, {}) : n \in 0 .. MaxProjects}

\* kappa is an int >= 0: no adjustment, a square root, a cube root.
Kappas == {0, 1, 2}

\* The members of a set of identifiers in ascending order.
RECURSIVE Ascending(_)
Ascending(S) ==
    IF S = {} THEN <<>>
    ELSE LET x == CHOOSE y \in S : \A z \in S : y <= z
         IN  <<x>> \o Ascending(S \ {x})

\* Every Series with index in Ids (each label once) and values in vals.
SeriesOver(vals) ==
    UNION {{[i \in 1 .. Cardinality(S) |-> <<Ascending(S)[i], f[Ascending(S)[i]]>>] :
                f \in [S -> vals]} : S \in SUBSET Ids}

ScoreValues == {Zero, <<4, 5>>}
AttendanceValues == {<<1, 2>>, One}
Ratios == {Zero, <<1, 5>>, One}

\* mapping: None, or a dict that is one-to-one on its keys.
NoMapping == [given |-> FALSE, dict |-> <<>>]
Dicts ==
    UNION {{f \in [S -> Ids] : \A x, y \in S : x # y => f[x] # f[y]} :
                S \in SUBSET Ids}
Mappings == {NoMapping} \cup {[given |-> TRUE, dict |-> f] : f \in Dicts}

NoTable == [n |-> 0, columns |-> {}, cell |-> <<>>]
NoArgs == [sheet_id |-> FALSE, credentials |-> FALSE, csv_or_frame |-> "None"]
ArgSets ==
    [sheet_id : BOOLEAN, credentials : BOOLEAN,
     csv_or_frame : {"None", "str", "DataFrame"}]

AdjustFns == {"kappa_adjusted", "proportional_variance"}
ToolFns == {"get_project_scores", "get_attendance_scores", "get_number_name_pairs"}

\* ----------------------------------------------------------------- actions
\* The functions keep no state between calls, so a behaviour is one call:
\* Init holds the data the caller prepared (a score table, or a scores and an
\* attendance series), the action is the call on it with its other arguments.
IdleBlend ==
    /\ scores' = <<>>
    /\ attendance' = <<>>
    /\ ratio' = Zero
    /\ mapping' = NoMapping

IdleAdjust ==
    /\ table' = NoTable
    /\ kappa' = 0
    /\ normalize' = FALSE
    /\ avg_scores' = {}
    /\ std_scores' = {}
    /\ weights' = {}
    /\ terms' = <<>>
    /\ adjusted_scores' = <<>>

IdleTools ==
    /\ args' = NoArgs
    /\ data_read' = FALSE

NoSeries == scores = <<>> /\ attendance = <<>>

\* The state after an adjustment call that computed c.
AdjustDone(c) ==
    /\ avg_scores' = c.avg_scores
    /\ std_scores' = c.std_scores
    /\ weights' = c.weights
    /\ terms' = c.terms
    /\ adjusted_scores' = c.adjusted_scores
    /\ result' = c.result
    /\ exc' = "none"
    /\ msg' = ""
    /\ UNCHANGED table
    /\ IdleBlend
    /\ IdleTools

CallKappaAdjusted ==
    /\ fn = "none"
    /\ NoSeries
    /\ \E k \in Kappas, nz \in BOOLEAN :
        \E c \in kappa_adjusted(table, k, nz) :
            /\ fn' = "kappa_adjusted"
            /\ kappa' = k
            /\ normalize' = nz
            /\ AdjustDone(c)

CallProportionalVariance ==
    /\ fn = "none"
    /\ NoSeries
    /\ \E nz \in BOOLEAN :
        \E c \in proportional_variance(table, nz) :
            /\ fn' = "proportional_variance"
            /\ kappa' = 0
            /\ normalize' = nz
            /\ AdjustDone(c)

CallShowcasePrescreeningScore ==
    /\ fn = "none"
    /\ table = NoTable
    /\ \E r \in Ratios, mp \in Mappings :
        LET out == showcase_prescreening_score(scores, attendance, r, mp)
        IN  /\ fn' = "showcase_prescreening_score"
            /\ ratio' = r
            /\ mapping' = mp
            /\ exc' = out.exc
            /\ msg' = out.msg
            /\ result' = out.result
            /\ UNCHANGED <<scores, attendance>>
            /\ IdleAdjust
            /\ IdleTools

\* The state after tool function f, called with arguments a, ended in out.
ToolDone(f, a, out) ==
    /\ fn' = f
    /\ args' = a
    /\ exc' = out.exc
    /\ msg' = out.msg
    /\ data_read' = out.data_read
    /\ result' = <<>>
    /\ IdleAdjust
    /\ IdleBlend

CallGetProjectScores ==
    /\ fn = "none"
    /\ table = NoTable /\ NoSeries
    /\ \E a \in ArgSets :
        ToolDone("get_project_scores", a, get_project_scores(a))

CallGetAttendanceScores ==
    /\ fn = "none"
    /\ table = NoTable /\ NoSeries
    /\ \E a \in ArgSets :
        ToolDone("get_attendance_scores", a, get_attendance_scores(a))

CallGetNumberNamePairs ==
    /\ fn = "none"
    /\ table = NoTable /\ NoSeries
    /\ \E a \in ArgSets :
        ToolDone("get_number_name_pairs", a, get_number_name_pairs(a))

Init ==
    /\ fn = "none"
    /\ \/ /\ table \in Tables
          /\ scores = <<>>
          /\ attendance = <<>>
       \/ /\ table \in NoJudgeTables
          /\ scores = <<>>
          /\ attendance = <<>>
       \/ /\ table = NoTable
          /\ scores \in SeriesOver(ScoreValues)
          /\ attendance \in SeriesOver(AttendanceValues)
    /\ kappa = 0
    /\ normalize = FALSE
    /\ avg_scores = {}
    /\ std_scores = {}
    /\ weights = {}
    /\ terms = <<>>
    /\ adjusted_scores = <<>>
    /\ ratio = Zero
    /\ mapping = NoMapping
    /\ args = NoArgs
    /\ exc = "none"
    /\ msg = ""
    /\ data_read = FALSE
    /\ result = <<>>

Next ==
    \/ CallKappaAdjusted
    \/ CallProportionalVariance
    \/ CallShowcasePrescreeningScore
    \/ CallGetProjectScores
    \/ CallGetAttendanceScores
    \/ CallGetNumberNamePairs

Spec == Init /\ [][Next]_vars

\* ------------------------------------------------------------------ claims
Called(f) == fn = f
CalledAdjust == fn \in AdjustFns
CalledTool == fn \in ToolFns
CalledBlend == fn = "showcase_prescreening_score"

ResultValues == {result[i][2] : i \in 1 .. Len(result)}

\* The identifier the documentation of mapping gives project p: the mapping
\* goes from the labels of scores to the labels of attendance.
Translate(p) == IF mapping.given THEN mapping.dict[p] ELSE p
Translatable(p) ==
    /\ mapping.given => p \in DOMAIN mapping.dict
    /\ Translate(p) \in Labels(attendance)

\* C1: whenever every project of scores translates to a key of attendance,
\* showcase_prescreening_score returns, for each project p of scores,
\* scores[p]*(1-r) + attendance[translate(p)]*r, translate being the identity
\* without a mapping and the mapping (scores label -> attendance label) with one.
C1_BlendFollowsContract ==
    (CalledBlend /\ \A i \in 1 .. Len(scores) : Translatable(scores[i][1]))
        => \A i \in 1 .. Len(scores) :
              /\ exc = "none"
              /\ Len(result) = Len(scores)
              /\ result[i] =
                    <<scores[i][1],
                      Add(Mul(scores[i][2], Sub(One, ratio)),
                          Mul(Lookup(attendance, Translate(scores[i][1])), ratio))>>

\* C2: whenever some project of scores has no mapping entry or translates to
\* an identifier that is no key of attendance, showcase_prescreening_score
\* ends in an error.
C2_MissingIdentifierRaises ==
    (CalledBlend /\ \E i \in 1 .. Len(scores) : ~Translatable(scores[i][1]))
        => exc # "none"

\* C3: kappa_adjusted and proportional_variance return a Series whose keys
\* are exactly the table's project identifiers, each once.
C3_OneEntryPerProject ==
    CalledAdjust
        => /\ exc = "none"
           /\ Len(result) = table.n
           /\ \A p \in 1 .. table.n :
                 Cardinality({i \in 1 .. Len(result) : result[i][1] = p}) = 1

\* C3 witness: a three-project, two-judge table whose normalised ranking
\* holds three different scores and does not start with project 1.
C3_Witness ==
    /\ CalledAdjust /\ normalize
    /\ table.n = 3
    /\ table.columns = {"A", "B"}
    /\ Cardinality(ResultValues) = 3
    /\ result[1][1] # 1

\* C4: of every two consecutive entries of the Series kappa_adjusted or
\* proportional_variance returns, the earlier value is >= the later value.
C4_SortedDescending ==
    CalledAdjust
        => \A i \in 1 .. Len(result) - 1 : Le(result[i + 1][2], result[i][2])

\* C5: when the adjusted per-project scores hold at least two distinct values,
\* normalize=True returns values in [0, 1] with minimum 0 and maximum 1.
C5_NormalizedOntoUnitInterval ==
    (CalledAdjust /\ normalize /\ Cardinality(Range(Values(adjusted_scores))) >= 2)
        => /\ Zero \in ResultValues
           /\ One \in ResultValues
           /\ \A v \in ResultValues : Le(Zero, v) /\ Le(v, One)

\* C5 witness: a normalised result with a value strictly between 0 and 1,
\* from adjusted scores whose minimum was not 0.
C5_Witness ==
    /\ CalledAdjust /\ normalize
    /\ Min(Values(adjusted_scores)) # Zero
    /\ \E v \in ResultValues : Lt(Zero, v) /\ Lt(v, One)

\* The sum over the judges of sign(score - mean) * |score - mean| for project p.
SignedDeviationSum(t, p) ==
    LET js == SeqOf(t.columns)
        dev(j) == Sub(Num(t.cell[p][j]), Of(avg_scores, j))
    IN  SumSkipNa([i \in 1 .. Len(js) |-> Mul(Sign(dev(js[i])), Abs(dev(js[i])))])

\* C6: kappa_adjusted with kappa=0 and normalize=False gives every project the
\* sum over the judges of its signed deviations from the judge's mean.
C6_KappaZeroIsSignedDeviationSum ==
    (Called("kappa_adjusted") /\ kappa = 0 /\ ~normalize)
        => \A i \in 1 .. Len(result) :
              result[i][2] = SignedDeviationSum(table, result[i][1])

\* C6 witness: kappa=0 on a table with a judge whose standard deviation is
\* neither 0 nor 1 and a project whose score is not 0.
C6_Witness ==
    /\ Called("kappa_adjusted") /\ kappa = 0 /\ ~normalize
    /\ \E j \in table.columns :
          /\ IsFinite(Of(std_scores, j))
          /\ Of(std_scores, j) \notin {Zero, One}
    /\ \E v \in ResultValues : v # Zero

\* C7: when the values being normalised are all identical, the result of
\* kappa_adjusted and proportional_variance with normalize=True holds no NaN
\* and no infinity.
C7_DegenerateNormalizeIsDefined ==
    (CalledAdjust /\ normalize /\ Cardinality(Range(Values(adjusted_scores))) = 1)
        => \A v \in ResultValues : IsFinite(v)

\* C8: on a table without judges or without projects kappa_adjusted and
\* proportional_variance end in an error.
C8_EmptyTableRaises ==
    (CalledAdjust /\ (table.n = 0 \/ table.columns = {}))
        => exc # "none"

BothGiven == "Both sheet_id and csv_or_frame are given."
MissingOne == "Missing one of sheet_id or credentials"

Deviation(p, j) == Sub(Num(table.cell[p][j]), Of(avg_scores, j))
Magnitude(p, j) == Mul(Abs(Deviation(p, j)), Pow(Of(std_scores, j), kappa))
Contribution(p, j) == Of(terms[p], j)
\* The sum of project p's contributions from the judges other than j.
OthersSum(p, j) ==
    LET js == SeqOf(table.columns \ {j})
    IN  SumSkipNa([i \in 1 .. Len(js) |-> Contribution(p, js[i])])

\* C10 as stated: in kappa_adjusted a cell with deviation 0 contributes
\* exactly 0.
C10_ZeroDeviationContributesZero ==
    Called("kappa_adjusted")
        => \A p \in 1 .. table.n, j \in table.columns :
              Deviation(p, j) = Zero => Contribution(p, j) = Zero

\* C10 amended: in kappa_adjusted a cell with deviation 0 contributes 0, or
\* NaN when its magnitude term is NaN (kappa > 0 and the judge's standard
\* deviation is undefined); the row sum skips NaN, so in both cases the
\* project's adjusted score is the sum of its other judges' contributions.
C10_ZeroDeviationLeavesScore ==
    Called("kappa_adjusted")
        => \A p \in 1 .. table.n, j \in table.columns :
              Deviation(p, j) = Zero
                  => /\ \/ Contribution(p, j) = Zero
                        \/ /\ IsNaN(Contribution(p, j))
                           /\ IsNaN(Magnitude(p, j))
                           /\ kappa > 0
                     /\ Lookup(adjusted_scores, p) = OthersSum(p, j)
                     /\ ~normalize => Lookup(result, p) = OthersSum(p, j)

\* C10 witness: a project scored exactly at the mean of a judge whose
\* standard deviation is positive, while another judge moves its score.
C10_Witness ==
    /\ Called("kappa_adjusted") /\ kappa > 0 /\ ~normalize
    /\ \E p \in 1 .. table.n, j \in table.columns :
          /\ Deviation(p, j) = Zero
          /\ Lt(Zero, Of(std_scores, j))
          /\ Lookup(result, p) # Zero

====
